---- MODULE Spec2Model ----
(***************************************************************************)
(* Budget Manager API (Flask + SQLite): the users and expenses tables, the *)
(* request handlers of server.py and the responses they return.            *)
(*                                                                         *)
(* A handler that reads a row and then writes it (update, delete) runs as  *)
(* two steps of its client: the SELECT and the UPDATE/DELETE are separate  *)
(* statements on the handler's own connection, and requests of other       *)
(* clients may run between them (the development server is threaded).      *)
(***************************************************************************)
EXTENDS Integers, Sequences, FiniteSets, TLC

VARIABLES users, userSeq, expenses, expenseSeq, today, pc, req, resp

vars == <<users, userSeq, expenses, expenseSeq, today, pc, req, resp>>

(* ------------------------------ bounds --------------------------------- *)

\* ids the users table may assign
MaxUserId == 2
\* ids the expenses table may assign
MaxExpenseId == 2
\* days the clock may advance
MaxDay == 2

\* clients whose requests the server handles concurrently
Clients == {"c1", "c2"}

\* Python's None and SQL NULL, in a text position and in an integer position
None == "<None>"
NullId == 0

Usernames == {"ann", "bob"}
Passwords == {"pw1", "pw2"}

(* ----------------------------- JSON bodies ----------------------------- *)

\* dict.get(key): the value of a key that is present, else None
Get(body, key) == IF key \in DOMAIN body THEN body[key] ELSE None

\* dict.get(key, default)
GetOr(body, key, default) == IF key \in DOMAIN body THEN body[key] ELSE default

\* the restriction of a JSON object to some of its keys
Restrict(obj, keys) == [k \in keys |-> obj[k]]

UserKeys == {"username", "password"}

\* bodies of POST /api/register, POST /api/login and PUT /api/users/<id>
UserBodies ==
  { Restrict(obj, keys) :
      obj \in [username : Usernames, password : Passwords],
      keys \in SUBSET UserKeys }

\* the few user bodies of the specification of all writing handlers
FewRegisterBodies == { [username |-> "ann", password |-> "pw1"] }

FewUserUpdateBodies == { [username |-> "ann", password |-> "pw2"] }

ExpenseKeys == {"title", "description", "amount", "category", "user_id", "date"}
UpdatableKeys == ExpenseKeys \ {"date"}

\* expense bodies with few fields varied: a create with every field, without a
\* date, without a category or without an amount, and any category
CreateBodies ==
  { Restrict(obj, keys) :
      obj \in [title : {"Lunch"}, description : {"meal"}, amount : {"12.50"},
               category : {"Food", "Snacks", "food", ""},
               user_id : {1}, date : {"1999-12-31"}],
      keys \in {ExpenseKeys, ExpenseKeys \ {"date"}, ExpenseKeys \ {"category"},
                ExpenseKeys \ {"amount"}} }

\* an update of the amount, of the date, of both, of neither, or of the category
UpdateBodies ==
  LET obj == [amount |-> "30.00", date |-> "1999-12-31"]
  IN  { Restrict(obj, keys) : keys \in SUBSET {"amount", "date"} }
        \cup { [category |-> c] : c \in {"Education", "Snacks", "food", ""} }

\* a create with every field, and an update of every subset of the updatable
\* fields to values other than the created ones
FieldCreateBodies ==
  { [title |-> "Lunch", description |-> "meal", amount |-> "12.50",
     category |-> "Food", user_id |-> 1] }

FieldUpdateBodies ==
  LET obj == [title |-> "Books", description |-> "text", amount |-> "30.00",
              category |-> "Education", user_id |-> 2]
  IN  { Restrict(obj, keys) : keys \in SUBSET UpdatableKeys }

\* the few expense bodies of the specification of all writing handlers
FewCreateBodies ==
  { [title |-> "Lunch", description |-> "meal", amount |-> "12.50",
     category |-> c, user_id |-> 1] : c \in {"Food", "Snacks"} }

FewUpdateBodies == { [amount |-> "30.00"], [category |-> "Snacks"] }

\* two registrations, for the specification of the reading handlers
TwoRegisterBodies ==
  { [username |-> "ann", password |-> "pw1"],
    [username |-> "bob", password |-> "pw2"] }

\* two partial updates of disjoint fields
AmountOnly == [amount |-> "30.00"]
TitleOnly == [title |-> "Books"]

(* ------------------------- requests and responses ---------------------- *)

NoData == [null |-> TRUE]
NoRow == [none |-> TRUE]
NoBody == [k \in {} |-> None]

\* a request as Flask hands it to its handler: the endpoint, the id of the URL
\* and the JSON body; existing_expense is the row update_expense has read
Request(op, id, body) ==
  [op |-> op, id |-> id, body |-> body, existing_expense |-> NoRow]

NoReq == Request("none", NullId, NoBody)

\* responses.py success_response
success_response(message, data) ==
  [envelope |-> TRUE, status |-> 200, success |-> TRUE,
   message |-> message, data |-> data]

\* responses.py not_found_response
not_found_response(entity) ==
  [envelope |-> TRUE, status |-> 404, success |-> FALSE,
   message |-> entity \o " not found", data |-> NoData]

\* the 401 of login_user
invalid_credentials ==
  [envelope |-> TRUE, status |-> 401, success |-> FALSE,
   message |-> "Invalid Credentials", data |-> NoData]

\* an exception no handler catches (sqlite3.IntegrityError): Flask answers 500
\* with no envelope
unhandled_fault(error) ==
  [envelope |-> FALSE, status |-> 500, success |-> FALSE,
   message |-> error, data |-> NoData]

\* no response yet: the request is being handled
NoResponse ==
  [envelope |-> FALSE, status |-> 0, success |-> FALSE,
   message |-> "", data |-> NoData]

\* the handler of client p returns response r to the given request; of the
\* request, the endpoint and the id stay on record
Respond(p, request, r) ==
  /\ resp' = [resp EXCEPT ![p] = r]
  /\ pc' = [pc EXCEPT ![p] = "idle"]
  /\ req' = [req EXCEPT ![p] = Request(request.op, request.id, NoBody)]

\* the handler of client p goes on to its write statement
Proceed(p, request) ==
  /\ resp' = [resp EXCEPT ![p] = NoResponse]
  /\ pc' = [pc EXCEPT ![p] = request.op]
  /\ req' = [req EXCEPT ![p] = request]

\* DELETE FROM <table> WHERE id = ?: the table without the row of that id
DeleteRow_RowKept(tbl, id) == tbl

DeleteRow(tbl, id) == [r \in DOMAIN tbl \ {id} |-> tbl[r]]

\* the ids of a set in ascending order: the order of a full scan of a table
RECURSIVE Ascending(_)
Ascending(ids) ==
  IF ids = {} THEN <<>>
  ELSE LET least == CHOOSE i \in ids : \A j \in ids : i <= j
       IN  <<least>> \o Ascending(ids \ {least})

\* a JSON list in the data position of a response
ListData(rows) == [rows |-> rows]

UsersUnchanged == UNCHANGED <<users, userSeq>>
ExpensesUnchanged == UNCHANGED <<expenses, expenseSeq, today>>

(* ----------------------------- users table ----------------------------- *)

UserIds == 1..MaxUserId

\* users.username is UNIQUE NOT NULL, users.password is NOT NULL: the row
\* (username, password) may be stored under id
UserRowOk_NotUnique(tbl, id, username, password) ==
  /\ username # None
  /\ password # None

UserRowOk(tbl, id, username, password) ==
  /\ username # None
  /\ password # None
  /\ \A u \in DOMAIN tbl : u # id => tbl[u].username # username

\* SELECT * FROM users WHERE username = ?: the ids of the matching rows
UsersByName(tbl, username) == { u \in DOMAIN tbl : tbl[u].username = username }

\* INSERT INTO users with AUTOINCREMENT: the table with the row under a new id
InsertUser_Swapped(tbl, seq, username, password) ==
  [u \in DOMAIN tbl \cup {seq + 1} |->
     IF u = seq + 1 THEN [username |-> password, password |-> username]
     ELSE tbl[u]]

InsertUser(tbl, seq, username, password) ==
  [u \in DOMAIN tbl \cup {seq + 1} |->
     IF u = seq + 1 THEN [username |-> username, password |-> password]
     ELSE tbl[u]]

\* POST /api/register
register_user(p, body) ==
  LET username == Get(body, "username")
      password == Get(body, "password")
      request  == Request("register_user", NullId, body)
  IN  /\ pc[p] = "idle"
      /\ ExpensesUnchanged
      /\ IF UserRowOk(users, NullId, username, password)
         THEN /\ userSeq < MaxUserId
              /\ userSeq' = userSeq + 1
              /\ users' = InsertUser(users, userSeq, username, password)
              /\ Respond(p, request,
                         success_response("User registered successfully", NoData))
         ELSE /\ UsersUnchanged
              /\ Respond(p, request, unhandled_fault("IntegrityError"))

\* the response of login_user in a given table
LoginResponse_UnknownUserTold(tbl, body) ==
  LET username == Get(body, "username")
      password == Get(body, "password")
      found    == UsersByName(tbl, username)
  IN  IF found = {} THEN not_found_response("User")
      ELSE IF tbl[CHOOSE u \in found : TRUE].password = password
      THEN LET u == CHOOSE u \in found : TRUE
           IN  success_response("Login successful",
                                [user_id |-> u, username |-> tbl[u].username])
      ELSE invalid_credentials

LoginResponse(tbl, body) ==
  LET username == Get(body, "username")
      password == Get(body, "password")
      found    == UsersByName(tbl, username)
  IN  IF found # {} /\ tbl[CHOOSE u \in found : TRUE].password = password
      THEN LET u == CHOOSE u \in found : TRUE
           IN  success_response("Login successful",
                                [user_id |-> u, username |-> tbl[u].username])
      ELSE invalid_credentials

\* POST /api/login
login_user(p, body) ==
  /\ pc[p] = "idle"
  /\ UsersUnchanged
  /\ ExpensesUnchanged
  /\ Respond(p, Request("login_user", NullId, body), LoginResponse(users, body))

\* the response of get_user in a given table
GetUserResponse(tbl, id) ==
  IF id \in DOMAIN tbl
  THEN success_response("User retrieved successfully",
                        [id |-> id, username |-> tbl[id].username])
  ELSE not_found_response("User")

\* GET /api/users/<id>
get_user(p, id) ==
  /\ pc[p] = "idle"
  /\ UsersUnchanged
  /\ ExpensesUnchanged
  /\ Respond(p, Request("get_user", id, NoBody), GetUserResponse(users, id))

\* the list get_users builds from SQL_SELECT_ALL_USER
UserListData_WithPassword(tbl) ==
  LET ids == Ascending(DOMAIN tbl)
  IN  ListData([i \in 1..Len(ids) |->
                  [id |-> ids[i], username |-> tbl[ids[i]].username,
                   password |-> tbl[ids[i]].password]])

UserListData(tbl) ==
  LET ids == Ascending(DOMAIN tbl)
  IN  ListData([i \in 1..Len(ids) |->
                  [id |-> ids[i], username |-> tbl[ids[i]].username]])

\* GET /api/users
get_users(p) ==
  /\ pc[p] = "idle"
  /\ UsersUnchanged
  /\ ExpensesUnchanged
  /\ Respond(p, Request("get_users", NullId, NoBody),
             success_response("Users retrieved successfully", UserListData(users)))

\* PUT /api/users/<id>, up to the existence check
update_user_check(p, id, body) ==
  /\ pc[p] = "idle"
  /\ UsersUnchanged
  /\ ExpensesUnchanged
  /\ IF id \notin DOMAIN users
     THEN Respond(p, Request("update_user", id, body), not_found_response("User"))
     ELSE Proceed(p, Request("update_user", id, body))

\* PUT /api/users/<id>, the UPDATE statement and the response
update_user_write(p) ==
  LET id       == req[p].id
      username == Get(req[p].body, "username")
      password == Get(req[p].body, "password")
  IN  /\ pc[p] = "update_user"
      /\ ExpensesUnchanged
      /\ UNCHANGED userSeq
      /\ IF id \in DOMAIN users /\ ~UserRowOk(users, id, username, password)
         THEN /\ UNCHANGED users
              /\ Respond(p, req[p], unhandled_fault("IntegrityError"))
         ELSE /\ users' = IF id \in DOMAIN users
                          THEN [users EXCEPT ![id] = [username |-> username,
                                                      password |-> password]]
                          ELSE users
              /\ Respond(p, req[p], success_response("User updated successfully",
                                                     NoData))

\* DELETE /api/users/<id>, up to the existence check
delete_user_check(p, id) ==
  /\ pc[p] = "idle"
  /\ UsersUnchanged
  /\ ExpensesUnchanged
  /\ IF id \notin DOMAIN users
     THEN Respond(p, Request("delete_user", id, NoBody), not_found_response("User"))
     ELSE Proceed(p, Request("delete_user", id, NoBody))

\* DELETE /api/users/<id>, the DELETE statement and the response
delete_user_write_Cascade(p) ==
  /\ pc[p] = "delete_user"
  /\ UNCHANGED <<userSeq, expenseSeq, today>>
  /\ users' = DeleteRow(users, req[p].id)
  /\ expenses' = [e \in {x \in DOMAIN expenses : expenses[x].user_id # req[p].id}
                    |-> expenses[e]]
  /\ Respond(p, req[p], success_response("User deleted successfully", NoData))

delete_user_write(p) ==
  /\ pc[p] = "delete_user"
  /\ ExpensesUnchanged
  /\ UNCHANGED userSeq
  /\ users' = DeleteRow(users, req[p].id)
  /\ Respond(p, req[p], success_response("User deleted successfully", NoData))

(* ---------------------------- expenses table --------------------------- *)

ExpenseIds == 1..MaxExpenseId

\* constants.py VALID_EXPENSE_CATEGORIES
VALID_EXPENSE_CATEGORIES == <<"Food", "Education", "Entertainment">>

\* Python's `x in list`
InList(x, list) == \E i \in 1..Len(list) : list[i] = x

\* Python's ', '.join(list)
RECURSIVE Join(_)
Join(list) ==
  IF Len(list) = 0 THEN ""
  ELSE IF Len(list) = 1 THEN list[1]
  ELSE list[1] \o ", " \o Join(Tail(list))

\* the 400 of create_expense and update_expense
invalid_category ==
  [envelope |-> TRUE, status |-> 400, success |-> FALSE,
   message |-> "Invalid category. Must be one of: " \o Join(VALID_EXPENSE_CATEGORIES),
   data |-> NoData]

\* Python's truth value of a JSON string or None
Truthy(x) == x # None /\ x # ""

\* date.today() as sqlite3's date adapter stores it: the ISO text of the day
IsoDate(day) == "2025-11-" \o ToString(10 + day)

\* expenses: description, amount, date and category are NOT NULL
ExpenseRowOk(row) ==
  /\ row.description # None
  /\ row.amount # None
  /\ row.date # None
  /\ row.category # None

\* the parameters create_expense binds to SQL_INSERT_EXPENSE
NewExpenseRow_DateFromBody(body, day) ==
  [user_id     |-> GetOr(body, "user_id", NullId),
   title       |-> Get(body, "title"),
   amount      |-> Get(body, "amount"),
   category    |-> Get(body, "category"),
   date        |-> GetOr(body, "date", IsoDate(day)),
   description |-> Get(body, "description")]

NewExpenseRow(body, day) ==
  [user_id     |-> GetOr(body, "user_id", NullId),
   title       |-> Get(body, "title"),
   amount      |-> Get(body, "amount"),
   category    |-> Get(body, "category"),
   date        |-> IsoDate(day),
   description |-> Get(body, "description")]

\* the parameters update_expense binds to SQL_UPDATE_EXPENSE
MergedExpenseRow_TitleNoDefault(body, existing) ==
  [user_id     |-> GetOr(body, "user_id", existing.user_id),
   title       |-> Get(body, "title"),
   amount      |-> GetOr(body, "amount", existing.amount),
   category    |-> GetOr(body, "category", existing.category),
   date        |-> existing.date,
   description |-> GetOr(body, "description", existing.description)]

MergedExpenseRow(body, existing) ==
  [user_id     |-> GetOr(body, "user_id", existing.user_id),
   title       |-> GetOr(body, "title", existing.title),
   amount      |-> GetOr(body, "amount", existing.amount),
   category    |-> GetOr(body, "category", existing.category),
   date        |-> existing.date,
   description |-> GetOr(body, "description", existing.description)]

\* the category check of create_expense
CreateCategoryOk_OnlyIfGiven(body) ==
  LET category == Get(body, "category")
  IN  ~Truthy(category) \/ InList(category, VALID_EXPENSE_CATEGORIES)

CreateCategoryOk(body) == InList(Get(body, "category"), VALID_EXPENSE_CATEGORIES)

\* the category check of update_expense
UpdateCategoryOk(body) ==
  LET category == Get(body, "category")
  IN  ~(Truthy(category) /\ ~InList(category, VALID_EXPENSE_CATEGORIES))

\* INSERT INTO expenses with AUTOINCREMENT: the table with the row under a new id
InsertExpense_MaxRowidPlusOne(tbl, seq, row) ==
  LET new == IF DOMAIN tbl = {} THEN 1
             ELSE 1 + CHOOSE m \in DOMAIN tbl : \A e \in DOMAIN tbl : e <= m
  IN  [e \in DOMAIN tbl \cup {new} |-> IF e = new THEN row ELSE tbl[e]]

InsertExpense(tbl, seq, row) ==
  [e \in DOMAIN tbl \cup {seq + 1} |-> IF e = seq + 1 THEN row ELSE tbl[e]]

\* POST /api/expenses
create_expense(p, body) ==
  LET row     == NewExpenseRow(body, today)
      request == Request("create_expense", NullId, body)
  IN  /\ pc[p] = "idle"
      /\ UsersUnchanged
      /\ UNCHANGED today
      /\ IF ~CreateCategoryOk(body)
         THEN /\ UNCHANGED <<expenses, expenseSeq>>
              /\ Respond(p, request, invalid_category)
         ELSE IF ~ExpenseRowOk(row)
         THEN /\ UNCHANGED <<expenses, expenseSeq>>
              /\ Respond(p, request, unhandled_fault("IntegrityError"))
         ELSE /\ expenseSeq < MaxExpenseId
              /\ expenseSeq' = expenseSeq + 1
              /\ expenses' = InsertExpense(expenses, expenseSeq, row)
              /\ Respond(p, request,
                         success_response("Expense created successfully", NoData))

\* PUT /api/expenses/<id>, up to the read of the existing row
update_expense_check_ExistenceFirst(p, id, body) ==
  LET request == Request("update_expense", id, body)
  IN  /\ pc[p] = "idle"
      /\ UsersUnchanged
      /\ ExpensesUnchanged
      /\ IF id \notin DOMAIN expenses
         THEN Respond(p, request, not_found_response("Expense"))
         ELSE IF ~UpdateCategoryOk(body)
         THEN Respond(p, request, invalid_category)
         ELSE Proceed(p, [request EXCEPT !.existing_expense = expenses[id]])

update_expense_check(p, id, body) ==
  LET request == Request("update_expense", id, body)
  IN  /\ pc[p] = "idle"
      /\ UsersUnchanged
      /\ ExpensesUnchanged
      /\ IF ~UpdateCategoryOk(body)
         THEN Respond(p, request, invalid_category)
         ELSE IF id \notin DOMAIN expenses
         THEN Respond(p, request, not_found_response("Expense"))
         ELSE Proceed(p, [request EXCEPT !.existing_expense = expenses[id]])

\* PUT /api/expenses/<id>, the merge, the UPDATE statement and the response
update_expense_write(p) ==
  LET id      == req[p].id
      row     == MergedExpenseRow(req[p].body, req[p].existing_expense)
      request == Request("update_expense", id, req[p].body)
  IN  /\ pc[p] = "update_expense"
      /\ UsersUnchanged
      /\ UNCHANGED <<expenseSeq, today>>
      /\ IF id \in DOMAIN expenses /\ ~ExpenseRowOk(row)
         THEN /\ UNCHANGED expenses
              /\ Respond(p, request, unhandled_fault("IntegrityError"))
         ELSE /\ expenses' = IF id \in DOMAIN expenses
                             THEN [expenses EXCEPT ![id] = row]
                             ELSE expenses
              /\ Respond(p, request,
                         success_response("Expense updated successfully", NoData))

\* DELETE /api/expenses/<id>, up to the existence check
delete_expense_check(p, id) ==
  LET request == Request("delete_expense", id, NoBody)
  IN  /\ pc[p] = "idle"
      /\ UsersUnchanged
      /\ ExpensesUnchanged
      /\ IF id \notin DOMAIN expenses
         THEN Respond(p, request, not_found_response("Expense"))
         ELSE Proceed(p, request)

\* DELETE /api/expenses/<id>, the DELETE statement and the response
delete_expense_write(p) ==
  /\ pc[p] = "delete_expense"
  /\ UsersUnchanged
  /\ UNCHANGED <<expenseSeq, today>>
  /\ expenses' = DeleteRow(expenses, req[p].id)
  /\ Respond(p, req[p], success_response("Expense deleted successfully", NoData))

\* the record get_expense and get_all_expenses build from a row
ExpenseData(tbl, id) ==
  [id |-> id, user_id |-> tbl[id].user_id, title |-> tbl[id].title,
   amount |-> tbl[id].amount, category |-> tbl[id].category,
   date |-> tbl[id].date, description |-> tbl[id].description]

\* the response of get_expense in a given table
GetExpenseResponse_NullData(tbl, id) ==
  IF id \in DOMAIN tbl
  THEN success_response("Expense retrieved successfully", ExpenseData(tbl, id))
  ELSE success_response("Expense retrieved successfully", NoData)

GetExpenseResponse(tbl, id) ==
  IF id \in DOMAIN tbl
  THEN success_response("Expense retrieved successfully", ExpenseData(tbl, id))
  ELSE not_found_response("Expense")

\* GET /api/expenses/<id>
get_expense(p, id) ==
  /\ pc[p] = "idle"
  /\ UsersUnchanged
  /\ ExpensesUnchanged
  /\ Respond(p, Request("get_expense", id, NoBody), GetExpenseResponse(expenses, id))

\* the list get_all_expenses builds from SQL_SELECT_ALL_EXPENSES
ExpenseListData_FirstRowOnly(tbl) ==
  LET ids == Ascending(DOMAIN tbl)
  IN  ListData([i \in 1..(IF Len(ids) = 0 THEN 0 ELSE 1) |->
                  ExpenseData(tbl, ids[i])])

ExpenseListData(tbl) ==
  LET ids == Ascending(DOMAIN tbl)
  IN  ListData([i \in 1..Len(ids) |-> ExpenseData(tbl, ids[i])])

\* GET /api/expenses
get_all_expenses(p) ==
  /\ pc[p] = "idle"
  /\ UsersUnchanged
  /\ ExpensesUnchanged
  /\ Respond(p, Request("get_all_expenses", NullId, NoBody),
             success_response("Expenses retrieved successfully",
                              ExpenseListData(expenses)))

\* GET /api/health
health_check(p) ==
  /\ pc[p] = "idle"
  /\ UsersUnchanged
  /\ ExpensesUnchanged
  /\ Respond(p, Request("health_check", NullId, NoBody),
             success_response("API is healthy", NoData))

\* midnight passes: date.today() returns the next day
Tick ==
  /\ today < MaxDay
  /\ today' = today + 1
  /\ UNCHANGED <<users, userSeq, expenses, expenseSeq, pc, req, resp>>

(* ------------------------------ behaviours ----------------------------- *)

Init ==
  /\ users = <<>>
  /\ userSeq = 0
  /\ expenses = <<>>
  /\ expenseSeq = 0
  /\ today = 1
  /\ pc = [p \in Clients |-> "idle"]
  /\ req = [p \in Clients |-> NoReq]
  /\ resp = [p \in Clients |-> NoResponse]

\* one step of a user handler that writes, for client p and the given bodies
UserWriteStep(p, registers, updates) ==
  \/ \E body \in registers : register_user(p, body)
  \/ \E id \in UserIds, body \in updates : update_user_check(p, id, body)
  \/ update_user_write(p)
  \/ \E id \in UserIds : delete_user_check(p, id)
  \/ delete_user_write(p)

\* one step of a user handler that only reads
UserReadStep(p, bodies) ==
  \/ \E body \in bodies : login_user(p, body)
  \/ \E id \in UserIds : get_user(p, id)

\* one step of create_expense or update_expense
ExpenseUpsertStep(p, creates, updates) ==
  \/ \E body \in creates : create_expense(p, body)
  \/ \E id \in ExpenseIds, body \in updates : update_expense_check(p, id, body)
  \/ update_expense_write(p)

\* one step of delete_expense
ExpenseDeleteStep(p) ==
  \/ \E id \in ExpenseIds : delete_expense_check(p, id)
  \/ delete_expense_write(p)

\* one step of an expense handler that writes
ExpenseWriteStep(p, creates, updates) ==
  \/ ExpenseUpsertStep(p, creates, updates)
  \/ ExpenseDeleteStep(p)

\* the writing handlers of both tables, two clients at once, few bodies
Next ==
  \E p \in Clients :
    \/ UserWriteStep(p, FewRegisterBodies, FewUserUpdateBodies)
    \/ ExpenseWriteStep(p, FewCreateBodies, FewUpdateBodies)

Spec == Init /\ [][Next]_vars

\* the user handlers, two clients at once, every user body
UserNext ==
  \E p \in Clients :
    \/ UserWriteStep(p, UserBodies, UserBodies)
    \/ UserReadStep(p, UserBodies)

SpecUsers == Init /\ [][UserNext]_vars

\* the writing handlers of both tables and the reads of users, one request at a
\* time
SequentialNext ==
  \/ UserWriteStep("c1", UserBodies, UserBodies)
  \/ UserReadStep("c1", FewRegisterBodies)
  \/ ExpenseWriteStep("c1", FewCreateBodies, FewUpdateBodies)

SpecSequential == Init /\ [][SequentialNext]_vars

\* the expense handlers, one request at a time, and the clock
ExpenseNext ==
  \/ ExpenseWriteStep("c1", CreateBodies, UpdateBodies)
  \/ Tick

SpecExpenses == Init /\ [][ExpenseNext]_vars

\* creates and updates of expenses, one request at a time, every subset of the
\* fields updated
FieldNext == ExpenseUpsertStep("c1", FieldCreateBodies, FieldUpdateBodies)

SpecFields == Init /\ [][FieldNext]_vars

\* one step of a handler that only reads, for client p and the given logins
ReadStep(p, logins) ==
  \/ UserReadStep(p, logins)
  \/ get_users(p)
  \/ \E id \in ExpenseIds : get_expense(p, id)
  \/ get_all_expenses(p)
  \/ health_check(p)

\* every handler, one request at a time
ReadNext ==
  \/ UserWriteStep("c1", TwoRegisterBodies, FewUserUpdateBodies)
  \/ ExpenseWriteStep("c1", FewCreateBodies, FewUpdateBodies)
  \/ ReadStep("c1", TwoRegisterBodies)

SpecReads == Init /\ [][ReadNext]_vars

\* one expense body created, then client c1 updates amounts only and client c2
\* titles only, concurrently
RaceNext ==
  \/ \E body \in FieldCreateBodies : create_expense("c1", body)
  \/ \E id \in ExpenseIds : update_expense_check("c1", id, AmountOnly)
  \/ \E id \in ExpenseIds : update_expense_check("c2", id, TitleOnly)
  \/ \E p \in Clients : update_expense_write(p)

SpecRace == Init /\ [][RaceNext]_vars

(* ------------------------------- claims -------------------------------- *)

Categories == {"Food", "Education", "Entertainment"}

\* client p finishes the write step of the handler op
Finishes(p, op) == pc[p] = op /\ pc'[p] = "idle"

\* client p, idle, may be the one whose request to the handler op this step takes
Takes(p, op) == pc[p] = "idle" /\ req'[p].op = op

\* C1: every stored expense has a category that is one of Food, Education,
\* Entertainment, whatever create and update requests were made.
C1_StoredCategoryValid ==
  \A e \in DOMAIN expenses : expenses[e].category \in Categories

\* C2: an update or a delete whose write lands after a concurrent delete of the
\* same id has removed the row reports NotFound, not success.
C2_SecondReportsNotFound ==
  [][\A p \in Clients :
       /\ (Finishes(p, "update_user") \/ Finishes(p, "delete_user"))
            /\ req[p].id \notin DOMAIN users
          => resp'[p] = not_found_response("User")
       /\ (Finishes(p, "update_expense") \/ Finishes(p, "delete_expense"))
            /\ req[p].id \notin DOMAIN expenses
          => resp'[p] = not_found_response("Expense")]_vars

\* C3: the write of an update of a stored expense replaces exactly the fields
\* present in the body and leaves the other fields, the date and every other
\* expense as they were stored; the update reports success.
C3_UpdateReplacesPresentFields ==
  [][\A p \in Clients :
       Finishes(p, "update_expense") /\ req[p].id \in DOMAIN expenses
       => LET id   == req[p].id
              body == req[p].body
          IN  /\ DOMAIN expenses' = DOMAIN expenses
              /\ \A k \in UpdatableKeys :
                   expenses'[id][k] = IF k \in DOMAIN body THEN body[k]
                                      ELSE expenses[id][k]
              /\ expenses'[id].date = expenses[id].date
              /\ \A e \in DOMAIN expenses \ {id} : expenses'[e] = expenses[e]
              /\ resp'[p].status = 200 /\ resp'[p].success]_vars

C3_OnlyAmountUpdated ==
  /\ req["c1"].op = "update_expense" /\ resp["c1"].success
  /\ DOMAIN expenses = {1, 2}
  /\ expenses[2] = [user_id |-> 1, title |-> "Lunch", amount |-> "30.00",
                    category |-> "Food", date |-> IsoDate(1), description |-> "meal"]
  /\ expenses[1] = [user_id |-> 2, title |-> "Lunch", amount |-> "12.50",
                    category |-> "Education", date |-> IsoDate(1),
                    description |-> "text"]

\* C4: a created expense carries the day of the create call as its date,
\* whatever date the body carries, and a stored expense keeps its date in every
\* step, updates with a date in the body included.
C4_DateSetOnceAtCreate ==
  [][/\ \A e \in DOMAIN expenses' \ DOMAIN expenses :
          expenses'[e].date = IsoDate(today)
     /\ \A e \in DOMAIN expenses' \cap DOMAIN expenses :
          expenses'[e].date = expenses[e].date]_vars

C4_UpdatedOnLaterDay ==
  /\ today = 2
  /\ req["c1"].op = "update_expense" /\ resp["c1"].success
  /\ \E e \in DOMAIN expenses :
       expenses[e].date = IsoDate(1) /\ expenses[e].amount = "30.00"
  /\ \E e \in DOMAIN expenses : expenses[e].date = IsoDate(2)

\* C5: a registration whose username a stored user already holds ends in an
\* envelope reporting the duplicate, not in an unhandled fault, and creates no
\* user.
C5_DuplicateUsernameReported ==
  [][\A p \in Clients, body \in UserBodies :
       /\ Takes(p, "register_user")
       /\ register_user(p, body)
       /\ DOMAIN body = UserKeys
       /\ \E u \in DOMAIN users : users[u].username = body.username
       => resp'[p].envelope /\ ~resp'[p].success /\ users' = users]_vars

\* C6: the first delete of a stored user or expense removes it and reports
\* success, and a delete of the same id after it reports NotFound.
C6_DeleteTwice ==
  [][\A p \in Clients :
       /\ \A id \in UserIds :
            Takes(p, "delete_user") /\ delete_user_check(p, id) /\ id \in DOMAIN users
            => pc'[p] = "delete_user"
       /\ Finishes(p, "delete_user")
          => /\ resp'[p] = [envelope |-> TRUE, status |-> 200, success |-> TRUE,
                            message |-> "User deleted successfully",
                            data |-> NoData]
             /\ req[p].id \notin DOMAIN users'
       /\ \A q \in Clients, id \in UserIds :
            /\ pc[q] = "idle" /\ req[q].op = "delete_user" /\ req[q].id = id
            /\ resp[q].success
            /\ Takes(p, "delete_user")
            /\ delete_user_check(p, id)
            => resp'[p].status = 404 /\ resp'[p].message = "User not found"
       /\ \A id \in ExpenseIds :
            Takes(p, "delete_expense") /\ delete_expense_check(p, id)
              /\ id \in DOMAIN expenses
            => pc'[p] = "delete_expense"
       /\ Finishes(p, "delete_expense")
          => /\ resp'[p] = [envelope |-> TRUE, status |-> 200, success |-> TRUE,
                            message |-> "Expense deleted successfully",
                            data |-> NoData]
             /\ req[p].id \notin DOMAIN expenses'
       /\ \A q \in Clients, id \in ExpenseIds :
            /\ pc[q] = "idle" /\ req[q].op = "delete_expense" /\ req[q].id = id
            /\ resp[q].success
            /\ Takes(p, "delete_expense")
            /\ delete_expense_check(p, id)
            => resp'[p].status = 404 /\ resp'[p].message = "Expense not found"]_vars

C6_DeletedThenNotFound ==
  /\ \E id \in 1..userSeq :
       /\ id \notin DOMAIN users
       /\ req["c1"] = Request("delete_user", id, NoBody) /\ pc["c1"] = "idle"
       /\ resp["c1"].status = 404
  /\ \E id \in 1..expenseSeq : id \notin DOMAIN expenses

\* C7: a create-expense request whose category is not one of Food, Education,
\* Entertainment gets the validation error (400) and leaves the stored expenses
\* as they were.
C7_InvalidCategoryRejected ==
  [][\A p \in Clients, body \in CreateBodies :
       /\ Takes(p, "create_expense")
       /\ create_expense(p, body)
       /\ Get(body, "category") \notin Categories
       => /\ resp'[p].status = 400 /\ ~resp'[p].success
          /\ resp'[p].message =
               "Invalid category. Must be one of: Food, Education, Entertainment"
          /\ expenses' = expenses]_vars

C7_RejectedWithExpensesStored ==
  /\ req["c1"].op = "create_expense"
  /\ resp["c1"].status = 400
  /\ DOMAIN expenses # {}

\* a body whose category update_expense rejects
BadUpdateCategory(body) ==
  /\ "category" \in DOMAIN body
  /\ body.category # ""
  /\ body.category \notin Categories

\* C8 as stated: an update or a delete of an id that names no stored entity
\* reports NotFound and writes nothing.
C8_AbsentIdNotFound ==
  [][\A p \in Clients :
       /\ \A id \in UserIds :
            /\ id \notin DOMAIN users
            /\ pc[p] = "idle" /\ req'[p].id = id
            /\ \/ delete_user_check(p, id)
               \/ \E body \in UserBodies : update_user_check(p, id, body)
            => /\ resp'[p] = not_found_response("User")
               /\ users' = users /\ expenses' = expenses
       /\ \A id \in ExpenseIds :
            /\ id \notin DOMAIN expenses
            /\ pc[p] = "idle" /\ req'[p].id = id
            /\ \/ delete_expense_check(p, id)
               \/ \E body \in FewUpdateBodies : update_expense_check(p, id, body)
            => /\ resp'[p] = not_found_response("Expense")
               /\ users' = users /\ expenses' = expenses]_vars

\* C8 amended: an update or a delete of an id that names no stored entity writes
\* nothing and reports NotFound, except that an expense update whose body
\* carries a non-empty category outside the set reports the validation error.
C8_AbsentIdNoWrite ==
  [][\A p \in Clients :
       /\ \A id \in UserIds :
            /\ id \notin DOMAIN users
            /\ pc[p] = "idle" /\ req'[p].id = id
            /\ \/ delete_user_check(p, id)
               \/ \E body \in UserBodies : update_user_check(p, id, body)
            => /\ resp'[p].status = 404 /\ resp'[p].message = "User not found"
               /\ pc'[p] = "idle"
               /\ users' = users /\ expenses' = expenses
       /\ \A id \in ExpenseIds :
            /\ id \notin DOMAIN expenses
            /\ Takes(p, "delete_expense")
            /\ delete_expense_check(p, id)
            => /\ resp'[p].status = 404 /\ resp'[p].message = "Expense not found"
               /\ pc'[p] = "idle"
               /\ users' = users /\ expenses' = expenses
       /\ \A id \in ExpenseIds, body \in FewUpdateBodies :
            /\ id \notin DOMAIN expenses
            /\ Takes(p, "update_expense")
            /\ update_expense_check(p, id, body)
            => /\ IF BadUpdateCategory(body)
                  THEN resp'[p].status = 400
                  ELSE /\ resp'[p].status = 404
                       /\ resp'[p].message = "Expense not found"
               /\ pc'[p] = "idle"
               /\ users' = users /\ expenses' = expenses]_vars

C8_NotFoundWithRowsStored ==
  /\ req["c1"].op = "update_expense" /\ resp["c1"].status = 404
  /\ req["c1"].id \notin DOMAIN expenses
  /\ DOMAIN expenses # {}
  /\ DOMAIN users # {}

\* C9: a login with an unknown username and a login with a known username and
\* a wrong password get the same response: 401, success false, "Invalid
\* Credentials".
C9_LoginFailuresAlike ==
  [][\A p \in Clients, body \in UserBodies :
       /\ Takes(p, "login_user")
       /\ login_user(p, body)
       /\ \/ \A u \in DOMAIN users : users[u].username # Get(body, "username")
          \/ \E u \in DOMAIN users :
               /\ users[u].username = Get(body, "username")
               /\ users[u].password # Get(body, "password")
       => resp'[p] = [envelope |-> TRUE, status |-> 401, success |-> FALSE,
                      message |-> "Invalid Credentials", data |-> NoData]]_vars

C9_LoginRefusedWithUsersStored ==
  /\ req["c1"].op = "login_user" /\ resp["c1"].status = 401
  /\ req["c2"].op = "login_user" /\ resp["c2"].success
  /\ Cardinality(DOMAIN users) = 1

\* C10: a successful registration stores its username and password under the
\* id the table assigns; a stored user changes only by the write of an update
\* or a delete of its id; and for every stored user, fetching its id returns
\* its username and logging in with its username and password returns its id
\* and username.
C10_RegisteredUserReadBack ==
  [][/\ \A p \in Clients, body \in UserBodies :
          Takes(p, "register_user") /\ register_user(p, body) /\ resp'[p].success
          => /\ userSeq' \notin DOMAIN users
             /\ DOMAIN users' = DOMAIN users \cup {userSeq'}
             /\ users'[userSeq'] = [username |-> body.username,
                                    password |-> body.password]
     /\ \A u \in DOMAIN users :
          u \notin DOMAIN users' \/ users'[u] # users[u]
          => \E p \in Clients :
               /\ Finishes(p, "update_user") \/ Finishes(p, "delete_user")
               /\ req[p].id = u
     /\ \A p \in Clients, u \in DOMAIN users :
          Takes(p, "get_user") /\ get_user(p, u)
          => /\ resp'[p].status = 200 /\ resp'[p].success
             /\ resp'[p].data = [id |-> u, username |-> users[u].username]
     /\ \A p \in Clients, u \in DOMAIN users :
          Takes(p, "login_user") /\ login_user(p, users[u])
          => /\ resp'[p].status = 200 /\ resp'[p].success
             /\ resp'[p].data = [user_id |-> u,
                                 username |-> users[u].username]]_vars

C10_RegisteredFetchedLoggedIn ==
  /\ users = <<[username |-> "ann", password |-> "pw1"],
               [username |-> "bob", password |-> "pw2"]>>
  /\ req["c1"].op = "login_user"
  /\ resp["c1"].data = [user_id |-> 2, username |-> "bob"]
  /\ req["c2"] = Request("get_user", 2, NoBody)
  /\ resp["c2"].data = [id |-> 2, username |-> "bob"]

\* C11: every request that has been answered ended in one of the envelope
\* outcomes; no request ended in an unhandled fault raised by the store.
C11_EveryRequestEnveloped ==
  \A p \in Clients :
    pc[p] = "idle" /\ req[p].op # "none" => resp[p].envelope /\ resp[p].status # 500

\* C12: the write of an update of a stored user stores the username and the
\* password of the body, a field the body omits as an absent value, and reports
\* success.
C12_UserUpdateReplacesBoth ==
  [][\A p \in Clients :
       Finishes(p, "update_user") /\ req[p].id \in DOMAIN users
       => /\ req[p].id \in DOMAIN users'
          /\ users'[req[p].id] = [username |-> Get(req[p].body, "username"),
                                  password |-> Get(req[p].body, "password")]
          /\ resp'[p].status = 200 /\ resp'[p].success
          /\ resp'[p].message = "User updated successfully"]_vars

\* the verdict the category policy gives a body: an absent category passes, a
\* present one passes exactly when it is one of the three
PolicyCategoryOk(body) ==
  "category" \in DOMAIN body => body.category \in Categories

\* C13: create_expense and update_expense reject a body with the validation
\* error exactly when the category policy rejects it: an absent category passes
\* on both paths, a present one passes exactly when it is one of Food,
\* Education, Entertainment, the empty string is rejected on both.
C13_SameCategoryVerdict ==
  [][\A p \in Clients :
       /\ \A body \in CreateBodies :
            Takes(p, "create_expense") /\ create_expense(p, body)
            => (resp'[p].status = 400 <=> ~PolicyCategoryOk(body))
       /\ \A id \in ExpenseIds, body \in UpdateBodies :
            Takes(p, "update_expense") /\ update_expense_check(p, id, body)
            => (resp'[p].status = 400 <=> ~PolicyCategoryOk(body))]_vars

\* C13, the update path alone: update_expense rejects a body exactly when the
\* category policy rejects it.
C13_UpdateVerdict ==
  [][\A p \in Clients, id \in ExpenseIds, body \in UpdateBodies :
       Takes(p, "update_expense") /\ update_expense_check(p, id, body)
       => (resp'[p].status = 400 <=> ~PolicyCategoryOk(body))]_vars

\* C14: the status code of every answered request is the one of the endpoint
\* table: 201 for a successful registration or expense creation, 200 for every
\* other success, 404 for not-found, 400 for an invalid category, 401 for a
\* failed login.
C14_StatusCodes ==
  \A p \in Clients :
    pc[p] = "idle" /\ req[p].op # "none" /\ resp[p].envelope
    => /\ resp[p].success
          => resp[p].status = IF req[p].op \in {"register_user", "create_expense"}
                              THEN 201 ELSE 200
       /\ resp[p].message \in {"User not found", "Expense not found"}
          => resp[p].status = 404
       /\ resp[p].message = invalid_category.message => resp[p].status = 400
       /\ resp[p].message = "Invalid Credentials" => resp[p].status = 401
       /\ ~resp[p].success => resp[p].status \in {400, 401, 404}

\* C14 without the two creating endpoints: every success other than a
\* registration or an expense creation responds 200, not-found 404, an invalid
\* category 400 and a failed login 401.
C14_OtherStatusCodes ==
  \A p \in Clients :
    pc[p] = "idle" /\ req[p].op # "none" /\ resp[p].envelope
    => /\ resp[p].success /\ req[p].op \notin {"register_user", "create_expense"}
          => resp[p].status = 200
       /\ resp[p].message \in {"User not found", "Expense not found"}
          => resp[p].status = 404 /\ ~resp[p].success
       /\ resp[p].message = invalid_category.message => resp[p].status = 400
       /\ resp[p].message = "Invalid Credentials"
          => resp[p].status = 401 /\ ~resp[p].success
       /\ ~resp[p].success => resp[p].status \in {400, 401, 404}

\* C15: fetching by id an id that names no stored user or expense returns the
\* not-found shape (404, success false, "User not found" / "Expense not
\* found"), never a success; fetching a stored id returns a success with the
\* data of that id, never not-found.
C15_FetchAbsentIdNotFound ==
  [][\A p \in Clients :
       /\ \A id \in UserIds :
            Takes(p, "get_user") /\ get_user(p, id)
            => IF id \in DOMAIN users
               THEN /\ resp'[p].success /\ resp'[p].status = 200
                    /\ resp'[p].data # NoData /\ resp'[p].data.id = id
               ELSE resp'[p] = [envelope |-> TRUE, status |-> 404,
                                success |-> FALSE, message |-> "User not found",
                                data |-> NoData]
       /\ \A id \in ExpenseIds :
            Takes(p, "get_expense") /\ get_expense(p, id)
            => IF id \in DOMAIN expenses
               THEN /\ resp'[p].success /\ resp'[p].status = 200
                    /\ resp'[p].data # NoData /\ resp'[p].data.id = id
               ELSE resp'[p] = [envelope |-> TRUE, status |-> 404,
                                success |-> FALSE, message |-> "Expense not found",
                                data |-> NoData]]_vars

C15_FetchedAfterDelete ==
  /\ pc["c1"] = "idle" /\ req["c1"].op = "get_expense"
  /\ req["c1"].id \in 1..expenseSeq
  /\ req["c1"].id \notin DOMAIN expenses
  /\ resp["c1"].status = 404
  /\ DOMAIN expenses # {}
  /\ \E u \in 1..userSeq : u \notin DOMAIN users

\* C16: the write of a user delete removes that user's row only: every other
\* user and every expense, those owned by the deleted user included, stay as
\* stored; and an expense whose owner is no stored user is still fetched by id
\* and listed.
C16_UserDeleteNoCascade ==
  [][\A p \in Clients :
       /\ Finishes(p, "delete_user")
          => /\ expenses' = expenses
             /\ DOMAIN users' = DOMAIN users \ {req[p].id}
             /\ \A u \in DOMAIN users' : users'[u] = users[u]
       /\ \A e \in DOMAIN expenses :
            expenses[e].user_id \notin DOMAIN users
            => /\ Takes(p, "get_expense") /\ get_expense(p, e)
                  => /\ resp'[p].success
                     /\ resp'[p].data = [id |-> e] @@ expenses[e]
               /\ Takes(p, "get_all_expenses") /\ get_all_expenses(p)
                  => \E i \in DOMAIN resp'[p].data.rows :
                       resp'[p].data.rows[i] = [id |-> e] @@ expenses[e]]_vars

C16_OrphanExpenseFetched ==
  /\ userSeq >= 1 /\ 1 \notin DOMAIN users
  /\ \E e \in DOMAIN expenses :
       /\ expenses[e].user_id = 1
       /\ req["c1"] = Request("get_expense", e, NoBody)
       /\ resp["c1"].success
       /\ resp["c1"].data.user_id = 1

\* C17: no two stored users have the same username, in every state reachable
\* by any interleaving of register, update-user and delete-user requests.
C17_UsernamesUnique ==
  \A u \in DOMAIN users, v \in DOMAIN users :
    u # v => users[u].username # users[v].username

C17_TwoUsersAfterRacingUpdates ==
  /\ Cardinality(DOMAIN users) = 2
  /\ req["c1"].op = "update_user" /\ resp["c1"].success
  /\ req["c2"].op = "update_user" /\ resp["c2"].status = 500
  /\ req["c1"].id # req["c2"].id
  /\ users[req["c1"].id].username = "bob"

\* C18: listing users, and listing expenses, succeeds and returns exactly the
\* stored entities, one entry per stored id and no other entry: the empty list
\* when nothing is stored, no deleted entity, every stored one as it is stored.
C18_ListReturnsStored ==
  [][\A p \in Clients :
       /\ Takes(p, "get_users") /\ get_users(p)
          => /\ resp'[p].success /\ resp'[p].status = 200
             /\ LET rows == resp'[p].data.rows
                IN  /\ Len(rows) = Cardinality(DOMAIN users)
                    /\ { rows[i] : i \in DOMAIN rows }
                         = { [id |-> u, username |-> users[u].username] :
                               u \in DOMAIN users }
       /\ Takes(p, "get_all_expenses") /\ get_all_expenses(p)
          => /\ resp'[p].success /\ resp'[p].status = 200
             /\ LET rows == resp'[p].data.rows
                IN  /\ Len(rows) = Cardinality(DOMAIN expenses)
                    /\ { rows[i] : i \in DOMAIN rows }
                         = { [id |-> e] @@ expenses[e] : e \in DOMAIN expenses }]_vars

C18_ListedAfterDeleteAndUpdate ==
  /\ req["c1"].op = "get_all_expenses" /\ resp["c1"].success
  /\ expenseSeq = 2 /\ DOMAIN expenses = {2}
  /\ Len(resp["c1"].data.rows) = 1
  /\ resp["c1"].data.rows[1].id = 2
  /\ resp["c1"].data.rows[1].amount = "30.00"
  /\ Cardinality(DOMAIN users) = 2

\* listing an empty store succeeds with the empty list
C18_EmptyListed ==
  /\ req["c1"].op = "get_users" /\ resp["c1"].success
  /\ resp["c1"].data.rows = <<>>
  /\ userSeq = 0

\* the passwords stored at the moment
StoredPasswords == { users[u].password : u \in DOMAIN users }

C20_DisjointUpdatesBothTakeEffect ==
  \A e \in DOMAIN expenses :
    /\ pc["c1"] = "idle" /\ req["c1"].op = "update_expense" /\ req["c1"].id = e
    /\ resp["c1"].success
    /\ pc["c2"] = "idle" /\ req["c2"].op = "update_expense" /\ req["c2"].id = e
    /\ resp["c2"].success
    => expenses[e].amount = AmountOnly.amount /\ expenses[e].title = TitleOnly.title

\* C21: an id whose user or expense was deleted never names a stored one
\* again: every create is assigned an id greater than every id assigned before
\* in that table, deleted ones included, and the write of an update, or of a
\* delete, that lands after a delete of the same id stores no row under it.
C21_IdsNeverReused ==
  [][/\ userSeq' >= userSeq
     /\ expenseSeq' >= expenseSeq
     /\ \A u \in DOMAIN users' \ DOMAIN users :
          /\ u > userSeq /\ u = userSeq'
          /\ \A v \in DOMAIN users : u > v
     /\ \A e \in DOMAIN expenses' \ DOMAIN expenses :
          /\ e > expenseSeq /\ e = expenseSeq'
          /\ \A f \in DOMAIN expenses : e > f
     /\ \A u \in 1..userSeq : u \notin DOMAIN users => u \notin DOMAIN users'
     /\ \A e \in 1..expenseSeq :
          e \notin DOMAIN expenses => e \notin DOMAIN expenses'
     /\ \A p \in Clients :
          /\ Finishes(p, "update_expense") /\ req[p].id \notin DOMAIN expenses
             => expenses' = expenses
          /\ Finishes(p, "update_user") /\ req[p].id \notin DOMAIN users
             => users' = users]_vars

\* client c1 has read expense 1 for an update; a delete of client c2 has since
\* removed it and a create has been assigned id 2; the write of c1 is next
C21_WriteDueAfterDeleteAndCreate ==
  /\ pc["c1"] = "update_expense" /\ req["c1"].id = 1
  /\ req["c1"].existing_expense # NoRow
  /\ pc["c2"] = "idle" /\ req["c2"].op = "create_expense" /\ resp["c2"].success
  /\ expenseSeq = 2 /\ DOMAIN expenses = {2}
  /\ userSeq = 2 /\ DOMAIN users = {2}

====
